---- MODULE Spec2Model ----
(***************************************************************************)
(* Ezra: execution of action plans.                                        *)
(*                                                                         *)
(* Two executors run a plan (a list of action dictionaries) step by step:  *)
(*   ExecutorEngine  (src/executor/ezra_executor/executor.py), which works *)
(*                   through a platform adapter, and                       *)
(*   ActionExecutor  (src/agent/ezra_agent/executor.py), which spawns the  *)
(*                   commands itself and is driven by                      *)
(*                   AgentDaemon.process_request (src/agent/.../main.py).  *)
(*                                                                         *)
(* One loop iteration of execute_action_plan (execute_action, the append   *)
(* of its result and the decision to go on) is one step of the model; the  *)
(* effects of the iteration are appended to `trace` in program order.      *)
(***************************************************************************)
EXTENDS Integers, Sequences, FiniteSets

\* ------------------------------------------------------------------ bounds
MaxSteps == 2       \* longest plan
MaxCmds == 2        \* longest command list / rollback command list of a step
MaxProbes == 2      \* most adapter constructions followed per platform
MaxTypedSteps == 1  \* longest plan of steps dispatched by type
MaxEntries == 3     \* longest audit trail
MaxRuns == 2        \* most runs of one character class in a hash input
MaxWireSteps == 2   \* longest step list of a plan sent over the wire
RiskSpan == 3       \* how far below 0 and above 10 the risk values tried go
MaxTwinSteps == 1   \* longest plan given to both executors

\* --------------------------------------------------------------- constants
ExecutorEngine == "ExecutorEngine"
ActionExecutor == "ActionExecutor"

\* ExecutorEngine.__init__: the adapter registry (its keys)
adapters == {"linux", "windows", "android"}

\* platforms a plan may declare: a registered one and an unregistered one
PlanPlatforms == {"linux", "ios"}

\* What running one native command can do (subprocess.run):
\* exit 0, exit non-zero, subprocess.TimeoutExpired, OSError on spawn.
CmdOutcomes == {"ok", "nonzero", "timeout", "spawn_error"}

\* the length the hash pattern and validate_hash ask for
HashLen == 64

\* ------------------------------------------------------------ the state
VARIABLES
    engine,           \* the executor whose execute_action_plan was called
    plan,             \* action_plan["actions"]
    platform,         \* action_plan["platform"]
    current_adapter,  \* ExecutorEngine._current_adapter (its platform)
    idx,              \* number of actions the loop has consumed
    results,          \* the local list `results`
    trace,            \* the effects so far, in program order
    pc,               \* "idle", "running", "returned", "raised"
    raised,           \* class of the exception that left execute_action_plan
    request,          \* the process_request call in progress, if any
    running,          \* AgentDaemon.running
    cli,              \* where the `request` command of the agent is: "none"
                      \* (not invoked), "main_loop", "sleeping", "process",
                      \* "exited", "crashed"
    audit,            \* the audit trail: the entries recorded so far
    tampered,         \* index of the audit entry whose details were changed
                      \* after it was recorded, 0 if none was
    probes,           \* per platform, how often an adapter of this engine
                      \* has run _detect_capabilities
    verbose,          \* the trace keeps how each command ended
    hash_field,       \* a validation of a 64-character hash field
    wire,             \* an ActionPlan, its JSON wire form and what validating
                      \* that form gave; <<>> before
    risk_field,       \* a validation of a risk value
    twin              \* a plan run by both executors with the same command
                      \* outcomes: the plan, the outcomes, what each did

vars == <<engine, plan, platform, current_adapter, idx, results, trace, pc,
          raised, request, running, cli, audit, tampered, probes, verbose,
          hash_field, wire, risk_field, twin>>

\* the variables of the schema models
schema_vars == <<hash_field, wire, risk_field>>

\* the variables outside the executors
daemon_vars ==
    <<running, cli, audit, tampered, verbose, schema_vars, twin>>

\* the variables a step of a plan has nothing to do with
step_frame == <<running, cli, tampered, verbose, schema_vars, twin>>

\* the variables of the executors and the daemon
executor_vars == <<engine, plan, platform, current_adapter, idx, results,
                   trace, pc, raised, request, running, cli, probes,
                   verbose, twin>>

\* ------------------------------------------------------------------- steps
\* An action dictionary, reduced to the keys the executors read.
\*   risk_level  "none" = the key is absent
\*   rollback_commands.kind  "absent" = no such key, "list" = a list,
\*                           "scalar" = a truthy JSON value that is no list
\*   target      the type-specific arguments are given (source and
\*               destination of a backup step, package of an install step,
\*               backup_path and destination of a restore step, file_path
\*               of a configure or modify step)
\*   changes     a non-empty "changes" dictionary is given
\*   dependencies  ids (positions) of the steps this one declares to need
CmdList(n) == [k \in 1..n |-> k]

RbAbsent == [kind |-> "absent", cmds |-> <<>>]
RbScalar == [kind |-> "scalar", cmds |-> <<>>]
RbList(n) == [kind |-> "list", cmds |-> CmdList(n)]

Step(t, r, c, rb, tg, d) ==
    [type |-> t, risk_level |-> r, commands |-> c, rollback_commands |-> rb,
     target |-> tg, changes |-> FALSE, dependencies |-> d]

\* plain command steps of every risk level
Generic ==
    {Step("custom", r, CmdList(1), RbAbsent, FALSE, <<>>) :
        r \in {"none", "high", "critical"}}

\* command lists of every length, without and with rollback commands
Lists ==
    {Step("custom", "none", CmdList(n), RbAbsent, FALSE, <<>>) : n \in 0..MaxCmds}
    \cup {Step("custom", "none", CmdList(1), RbList(n), FALSE, <<>>) : n \in 0..MaxCmds}
    \cup {Step("custom", "high", CmdList(1), RbList(1), FALSE, <<>>)}

\* steps handled by an adapter operation (type "backup")
AdapterOps ==
    {Step("backup", "none", <<>>, RbList(MaxCmds), TRUE, <<>>),
     Step("backup", "none", <<>>, RbAbsent, FALSE, <<>>),
     Step("backup", "critical", <<>>, RbList(1), TRUE, <<>>),
     Step("backup", "critical", <<>>, RbScalar, TRUE, <<>>)}

\* steps that declare a dependency
Dependent ==
    {Step("custom", "none", CmdList(1), RbAbsent, FALSE, <<d>>) : d \in 1..MaxSteps}

StepSet == Generic \cup Lists \cup AdapterOps \cup Dependent

\* A step with the arguments of its type: tg = the target is given
\* (package, file_path, source/backup_path and destination), ch = a
\* non-empty "changes" is given.
TypedStep(t, c, rb, tg, ch) ==
    [Step(t, "none", c, rb, tg, <<>>) EXCEPT !.changes = ch]

\* steps of every type the engine dispatches on
TypedSteps ==
    {TypedStep("install", <<>>, RbAbsent, tg, FALSE) : tg \in BOOLEAN}
    \cup {TypedStep("configure", CmdList(1), RbAbsent, tg, ch) :
              tg \in BOOLEAN, ch \in BOOLEAN}
    \cup {TypedStep("configure", <<>>, RbAbsent, FALSE, FALSE)}
    \cup {TypedStep("modify", CmdList(1), RbAbsent, tg, tg) : tg \in BOOLEAN}
    \cup {TypedStep("modify", CmdList(1), RbAbsent, TRUE, FALSE)}
    \cup {TypedStep("backup", <<>>, RbAbsent, tg, FALSE) : tg \in BOOLEAN}
    \cup {TypedStep("restore", <<>>, RbAbsent, tg, FALSE) : tg \in BOOLEAN}
    \cup {TypedStep("restore", <<>>, RbList(1), TRUE, FALSE)}
    \cup {TypedStep("jailbreak", CmdList(1), RbAbsent, FALSE, FALSE)}
    \cup {TypedStep("custom", CmdList(n), RbAbsent, FALSE, FALSE) : n \in 1..MaxCmds}

RECURSIVE TypedPlansOfLen(_)
TypedPlansOfLen(n) ==
    IF n = 0 THEN {<<>>}
    ELSE {Append(p, s) : p \in TypedPlansOfLen(n - 1), s \in TypedSteps}

TypedPlans == UNION {TypedPlansOfLen(n) : n \in 1..MaxTypedSteps}

RECURSIVE PlansOfLen(_)
PlansOfLen(n) ==
    IF n = 0 THEN {<<>>}
    ELSE {Append(p, s) : p \in PlansOfLen(n - 1), s \in StepSet}

PlanSet == UNION {PlansOfLen(n) : n \in 0..MaxSteps}

\* ------------------------------------------------------------------ effects
\* One observable effect of a step: op is "backup" (the pre-execution backup,
\* tagged with the step id), "command", "rollback" (a rollback command) or
\* "create_backup" (the adapter operation of a backup step).
Ev(op, step, arg, ok) ==
    [op |-> op, step |-> step, arg |-> arg, ok |-> ok, out |-> ""]

\* A run of a piece of code: the effects it had and how it ended
\* (a return value or the class of the exception that left it).
Run(events, outcome) == [events |-> events, outcome |-> outcome]

Then(first, rest) == Run(first.events \o rest.events, rest.outcome)

\* ------------------------------------------------- platform adapters (EE)
\* execute_command of each adapter: the success flag of the ExecutionResult
\* it returns. subprocess.run is called with check=False, success is
\* returncode == 0; TimeoutExpired and every other Exception (the spawn
\* failure) are caught and give a result with success=False.
LinuxAdapter_execute_command(o) ==
    CASE o = "ok" -> TRUE
      [] o = "nonzero" -> FALSE
      [] o = "timeout" -> FALSE
      [] o = "spawn_error" -> FALSE

WindowsAdapter_execute_command(o) ==
    CASE o = "ok" -> TRUE
      [] o = "nonzero" -> FALSE
      [] o = "timeout" -> FALSE
      [] o = "spawn_error" -> FALSE

\* execute_command that takes a command stopped by its timeout for done
AndroidAdapter_execute_command_timeout_ok(o) == o \in {"ok", "timeout"}

AndroidAdapter_execute_command(o) ==
    CASE o = "ok" -> TRUE
      [] o = "nonzero" -> FALSE
      [] o = "timeout" -> FALSE
      [] o = "spawn_error" -> FALSE

\* adapter.execute_command on the engine's adapter (the one get_adapter
\* returned for the plan's platform)
adapter_execute_command(o) ==
    CASE current_adapter = "windows" -> WindowsAdapter_execute_command(o)
      [] current_adapter = "android" -> AndroidAdapter_execute_command(o)
      [] OTHER -> LinuxAdapter_execute_command(o)

\* A command or rollback command that was run: the event keeps how the
\* command ended when the trace is verbose.
EvC(op, step, arg, ok, o) ==
    [op |-> op, step |-> step, arg |-> arg, ok |-> ok,
     out |-> IF verbose THEN o ELSE ""]

\* What the environment can do to create_backup: the mkdir of the
\* destination's parent fails, or the copy command ends in one of CmdOutcomes.
BackupOutcomes == {"mkdir_error"} \cup CmdOutcomes

\* create_backup of the adapter: "success" / "failed" for the result it
\* returns, "OSError" when Path.mkdir raises (LinuxAdapter, WindowsAdapter:
\* nothing catches it in the adapter). AndroidAdapter makes no directory:
\* its cp into the missing directory fails.
adapter_create_backup(o) ==
    IF o = "mkdir_error"
    THEN IF current_adapter = "android" THEN "failed" ELSE "OSError"
    ELSE IF adapter_execute_command(o) THEN "success" ELSE "failed"

\* What the environment can do to install_package: no package manager is
\* found, or the install command ends in one of CmdOutcomes.
InstallOutcomes == {"no_package_manager"} \cup CmdOutcomes

\* install_package of the adapter: the result of the package manager's
\* command, a failed result without a supported package manager.
adapter_install_package(o) ==
    IF o = "no_package_manager" THEN "failed"
    ELSE IF adapter_execute_command(o) THEN "success" ELSE "failed"

\* restore_backup of the adapter: as create_backup, the mkdir is of the
\* destination itself.
adapter_restore_backup(o) ==
    IF o = "mkdir_error"
    THEN IF current_adapter = "android" THEN "failed" ELSE "OSError"
    ELSE IF adapter_execute_command(o) THEN "success" ELSE "failed"

\* What the environment and the changes can do to modify_file: the content
\* is written, the write raises, or the changes hold no "content".
ModifyOutcomes == {"written", "write_error", "no_content"}

\* modify_file of the adapter: every exception of the write is caught.
adapter_modify_file(o) == IF o = "written" THEN "success" ELSE "failed"

\* ------------------------------------------------------- ExecutorEngine
\* _execute_commands, from the k-th command on: the runs it can take.
RECURSIVE Engine_commands_from(_, _, _)
Engine_commands_from(id, commands, k) ==
    IF k > Len(commands) THEN {Run(<<>>, "success")}
    ELSE UNION {
        IF adapter_execute_command(o)
        THEN {Then(Run(<<EvC("command", id, commands[k], TRUE, o)>>, "success"), r) :
                 r \in Engine_commands_from(id, commands, k + 1)}
        ELSE {Run(<<EvC("command", id, commands[k], FALSE, o)>>, "failed")}
        : o \in CmdOutcomes}

\* ExecutorEngine._execute_commands
Engine_execute_commands(id, commands) ==
    IF commands = <<>> THEN {Run(<<>>, "failed")}
    ELSE Engine_commands_from(id, commands, 1)

\* ExecutorEngine._execute_backup
Engine_execute_backup(id, action) ==
    IF action.target
    THEN {Run(<<Ev("create_backup", id, 0, adapter_create_backup(o) = "success")>>,
              adapter_create_backup(o)) : o \in BackupOutcomes}
    ELSE {Run(<<>>, "failed")}

\* ExecutorEngine._execute_install
Engine_execute_install(id, action) ==
    IF action.target
    THEN {Run(<<Ev("install_package", id, 0, adapter_install_package(o) = "success")>>,
              adapter_install_package(o)) : o \in InstallOutcomes}
    ELSE {Run(<<>>, "failed")}

\* _execute_configure with the test narrowed to file_path alone
Engine_execute_configure_target_only(id, action) ==
    IF action.target
    THEN {Run(<<Ev("modify_file", id, 0, adapter_modify_file(o) = "success")>>,
              adapter_modify_file(o)) : o \in ModifyOutcomes}
    ELSE Engine_execute_commands(id, action.commands)

\* ExecutorEngine._execute_configure: modify_file when file_path and changes
\* are both given, the raw command list otherwise.
Engine_execute_configure(id, action) ==
    IF action.target /\ action.changes
    THEN {Run(<<Ev("modify_file", id, 0, adapter_modify_file(o) = "success")>>,
              adapter_modify_file(o)) : o \in ModifyOutcomes}
    ELSE Engine_execute_commands(id, action.commands)

\* ExecutorEngine._execute_modify
Engine_execute_modify(id, action) ==
    IF action.target /\ action.changes
    THEN {Run(<<Ev("modify_file", id, 0, adapter_modify_file(o) = "success")>>,
              adapter_modify_file(o)) : o \in ModifyOutcomes}
    ELSE Engine_execute_commands(id, action.commands)

\* ExecutorEngine._execute_restore
Engine_execute_restore(id, action) ==
    IF action.target
    THEN {Run(<<Ev("restore_backup", id, 0, adapter_restore_backup(o) = "success")>>,
              adapter_restore_backup(o)) : o \in BackupOutcomes}
    ELSE {Run(<<>>, "failed")}

\* ExecutorEngine._execute_jailbreak, _execute_bypass: a warning, then the
\* raw command list.
Engine_execute_jailbreak(id, action) ==
    Engine_execute_commands(id, action.commands)

\* ExecutorEngine._create_backup: a stub that logs the action id.
Engine_create_backup(id) == Run(<<Ev("backup", id, 0, TRUE)>>, "returned")

\* ExecutorEngine._execute_rollback: every command is run, a failed one is
\* logged; iterating a value that is no list raises TypeError.
Engine_execute_rollback(id, action) ==
    LET rb == action.rollback_commands IN
    IF rb.kind = "scalar" THEN {Run(<<>>, "TypeError")}
    ELSE IF rb.cmds = <<>> THEN {Run(<<>>, "returned")}
    ELSE {Run([k \in 1..Len(rb.cmds) |->
                  EvC("rollback", id, rb.cmds[k],
                      adapter_execute_command(f[k]), f[k])],
              "returned") : f \in [1..Len(rb.cmds) -> CmdOutcomes]}

\* execute_action line 70: risk_level = action.get("risk_level", "medium")
risk_level_of(action) ==
    IF action.risk_level = "none" THEN "medium" ELSE action.risk_level

\* needs_backup with the test narrowed to "critical" alone
needs_backup_critical_only(action) == risk_level_of(action) = "critical"

\* execute_action lines 78/82: the risk levels that get a backup first
needs_backup(action) == risk_level_of(action) \in {"high", "critical"}

\* execute_action lines 81-98: dispatch on the action type
Engine_dispatch(id, action) ==
    CASE action.type = "install" -> Engine_execute_install(id, action)
      [] action.type = "configure" -> Engine_execute_configure(id, action)
      [] action.type = "modify" -> Engine_execute_modify(id, action)
      [] action.type = "backup" -> Engine_execute_backup(id, action)
      [] action.type = "restore" -> Engine_execute_restore(id, action)
      [] action.type \in {"jailbreak", "bypass"} ->
            Engine_execute_jailbreak(id, action)
      [] OTHER -> Engine_execute_commands(id, action.commands)

\* execute_action lines 105-117: the except branch. The rollback runs when
\* the key is present; the step's result is the failure that was caught.
Engine_on_exception(id, action) ==
    IF action.rollback_commands.kind # "absent"
    THEN {Run(r.events, IF r.outcome = "returned" THEN "failed" ELSE r.outcome) :
             r \in Engine_execute_rollback(id, action)}
    ELSE {Run(<<>>, "failed")}

\* ExecutorEngine.execute_action: "success" / "failed" for the result it
\* returns, an exception class when one leaves it.
Engine_execute_action(id, action) ==
    LET pre == IF needs_backup(action) THEN Engine_create_backup(id)
               ELSE Run(<<>>, "returned")
    IN UNION {
        IF h.outcome \in {"success", "failed"}
        THEN {Then(pre, h)}
        ELSE {Then(Then(pre, h), x) : x \in Engine_on_exception(id, action)}
        : h \in Engine_dispatch(id, action)}

\* The audit entries ExecutorEngine records for an action that ran as r:
\* none. A failure and a rollback are written to the log (logger.error,
\* logger.info); create_audit_entry is called nowhere in the executor.
Engine_audit_entries(id, r) == <<>>

\* execute_action_plan line 51: the break after a failed critical action
Engine_breaks(action, outcome) ==
    outcome = "failed" /\ action.risk_level = "critical"

\* execute_action_plan lines 47-61: the result appended for an action
Engine_result(outcome) == [success |-> outcome = "success"]

\* ------------------------------------------------------- ActionExecutor
\* The exception classes the agent's handlers name
\* (executor.py lines 57, 103, 176).
AgentCaught == {"CommandExecutionError", "ValueError", "RuntimeError"}

\* ActionExecutor._execute_command: "returned" for exit 0,
\* CommandExecutionError for a non-zero exit or a timeout; an OSError of
\* subprocess.run (the shell cannot be spawned) is not converted.
Agent_execute_command(o) ==
    CASE o = "ok" -> "returned"
      [] o \in {"nonzero", "timeout"} -> "CommandExecutionError"
      [] o = "spawn_error" -> "OSError"

\* What the environment can do to the backup file: open() succeeds or
\* raises OSError (backup directory missing, not writable, disk full).
BackupFileOutcomes == {"written", "os_error"}

\* ActionExecutor._create_backup: writes {action_id}_{epoch}.json
Agent_create_backup(id) ==
    {Run(<<Ev("backup", id, 0, o = "written")>>,
         IF o = "written" THEN "returned" ELSE "OSError") :
        o \in BackupFileOutcomes}

\* execute_action lines 86-90: the command loop, from the k-th command on
RECURSIVE Agent_commands_from(_, _, _)
Agent_commands_from(id, commands, k) ==
    IF k > Len(commands) THEN {Run(<<>>, "returned")}
    ELSE UNION {
        LET x == Agent_execute_command(o)
            e == Run(<<EvC("command", id, commands[k], x = "returned", o)>>, x)
        IN IF x = "returned"
           THEN {Then(e, r) : r \in Agent_commands_from(id, commands, k + 1)}
           ELSE {e}
        : o \in CmdOutcomes}

\* _execute_rollback lines 173-177, from the k-th rollback command on:
\* the classes of AgentCaught are logged and the loop goes on.
RECURSIVE Agent_rollback_from(_, _, _)
Agent_rollback_from(id, cmds, k) ==
    IF k > Len(cmds) THEN {Run(<<>>, "returned")}
    ELSE UNION {
        LET x == Agent_execute_command(o)
            e == Run(<<EvC("rollback", id, cmds[k], x = "returned", o)>>, x)
        IN IF x = "returned" \/ x \in AgentCaught
           THEN {Then(e, r) : r \in Agent_rollback_from(id, cmds, k + 1)}
           ELSE {e}
        : o \in CmdOutcomes}

\* ActionExecutor._execute_rollback
Agent_execute_rollback(id, action) ==
    LET rb == action.rollback_commands IN
    IF rb.kind = "scalar" THEN {Run(<<>>, "TypeError")}
    ELSE IF rb.cmds = <<>> THEN {Run(<<>>, "returned")}
    ELSE Agent_rollback_from(id, rb.cmds, 1)

\* execute_action lines 80-101: the body of the try block
Agent_try(id, action) ==
    LET backups == IF needs_backup(action) THEN Agent_create_backup(id)
                   ELSE {Run(<<>>, "returned")}
    IN UNION {
        IF b.outcome = "returned"
        THEN {Then(b, c) : c \in Agent_commands_from(id, action.commands, 1)}
        ELSE {b}
        : b \in backups}

\* execute_action lines 103-117: the except branch
Agent_on_exception(id, action) ==
    IF action.rollback_commands.kind # "absent"
    THEN {Run(r.events, IF r.outcome = "returned" THEN "failed" ELSE r.outcome) :
             r \in Agent_execute_rollback(id, action)}
    ELSE {Run(<<>>, "failed")}

\* execute_action with the rollback also run after the commands went through
Agent_execute_action_rollback_always(id, action) ==
    UNION {
        IF t.outcome = "returned"
        THEN {Run(t.events \o x.events, "completed") :
                 x \in Agent_on_exception(id, action)}
        ELSE IF t.outcome \in AgentCaught
        THEN {Then(t, x) : x \in Agent_on_exception(id, action)}
        ELSE {t}
        : t \in Agent_try(id, action)}

\* ActionExecutor.execute_action: "completed" / "failed" for the status of
\* the result it returns, an exception class when one leaves it.
Agent_execute_action(id, action) ==
    UNION {
        IF t.outcome = "returned" THEN {Run(t.events, "completed")}
        ELSE IF t.outcome \in AgentCaught
        THEN {Then(t, x) : x \in Agent_on_exception(id, action)}
        ELSE {t}
        : t \in Agent_try(id, action)}

\* The audit entries ActionExecutor records for an action that ran as r:
\* none, as in ExecutorEngine.
Agent_audit_entries(id, r) == <<>>

\* execute_action_plan line 51: the break after a failed critical action
Agent_breaks(action, outcome) ==
    outcome = "failed" /\ action.risk_level = "critical"

\* execute_action_plan lines 47-65: the result appended for an action
Agent_result(id, outcome) ==
    [action_id |-> id,
     status |-> IF outcome = "completed" THEN "completed" ELSE "failed"]

\* ------------------------------------------------------ companion client
\* What the verifier endpoint can answer to POST /api/v1/agent/verify:
\* no connection, an HTTP error status, a body that is not JSON, a JSON
\* array, a JSON object without "valid", or an object whose "valid" is
\* true, false, null or a string such as "false".
VerifierAnswers ==
    {"unreachable", "http_error", "not_json", "json_array", "no_valid_key",
     "valid_true", "valid_false", "valid_null", "valid_string"}

\* CompanionClient.verify_signature: the Python value it returns ("True",
\* "False", "None", "str" for a non-empty string), or "AttributeError" when
\* result.get is looked up on a list.
verify_signature(v) ==
    CASE v \in {"unreachable", "http_error"} -> "False"
      [] v = "not_json" -> "False"
      [] v = "json_array" -> "AttributeError"
      [] v = "no_valid_key" -> "False"
      [] v = "valid_true" -> "True"
      [] v = "valid_false" -> "False"
      [] v = "valid_null" -> "None"
      [] v = "valid_string" -> "str"

\* Python truth value of what verify_signature returned (`if not ...`)
truthy(x) == x \in {"True", "str"}

\* process_request line 129: the exception classes it turns into False
RequestCaught == {"ValueError", "RuntimeError", "ConnectionError"}

NoRequest == [active |-> FALSE, verifier |-> "none", consent |-> FALSE,
              ret |-> "none"]

NoField ==
    [field |-> "none", input |-> <<>>, outcome |-> "none", stored |-> <<>>]

\* Python values and JSON values, each with its type tag: s holds a string,
\* n a number (a float in hundredths).
PyNone == [t |-> "None", s |-> "", n |-> 0]
PyStr(x) == [t |-> "str", s |-> x, n |-> 0]
PyInt(x) == [t |-> "int", s |-> "", n |-> x]
PyFloat(x) == [t |-> "float", s |-> "", n |-> x]
PyUUID(x) == [t |-> "UUID", s |-> x, n |-> 0]
PyEnum(cls, name) == [t |-> cls, s |-> name, n |-> 0]
Invalid == [t |-> "invalid", s |-> "", n |-> 0]

NoRisk ==
    [field |-> "none", input |-> PyNone, outcome |-> "none", stored |-> PyNone]

\* A new engine, a new daemon: nothing has been executed.
Idle ==
    /\ engine = "none"
    /\ plan = <<>>
    /\ platform = "none"
    /\ current_adapter = "none"
    /\ idx = 0
    /\ results = <<>>
    /\ trace = <<>>
    /\ pc = "idle"
    /\ raised = "none"
    /\ request = NoRequest
    /\ running = FALSE
    /\ cli = "none"
    /\ audit = <<>>
    /\ tampered = 0
    /\ probes = [a \in adapters |-> 0]
    /\ hash_field = NoField
    /\ wire = <<>>
    /\ risk_field = NoRisk
    /\ twin = <<>>

Init == Idle /\ verbose = FALSE

\* get_adapter with a default adapter class for an unregistered platform
get_adapter_default(cur, pf) ==
    IF cur = "none" \/ cur # pf
    THEN IF pf \notin adapters
         THEN [outcome |-> "returned", adapter |-> "linux", constructed |-> TRUE]
         ELSE [outcome |-> "returned", adapter |-> pf, constructed |-> TRUE]
    ELSE [outcome |-> "returned", adapter |-> cur, constructed |-> FALSE]

\* get_adapter that hands out the adapter it holds, whatever the platform
get_adapter_sticky(cur, pf) ==
    IF cur = "none"
    THEN IF pf \notin adapters
         THEN [outcome |-> "ValueError", adapter |-> cur, constructed |-> FALSE]
         ELSE [outcome |-> "returned", adapter |-> pf, constructed |-> TRUE]
    ELSE [outcome |-> "returned", adapter |-> cur, constructed |-> FALSE]

\* get_adapter without the test on the adapter it holds
get_adapter_uncached(cur, pf) ==
    IF pf \notin adapters
    THEN [outcome |-> "ValueError", adapter |-> cur, constructed |-> FALSE]
    ELSE [outcome |-> "returned", adapter |-> pf, constructed |-> TRUE]

\* ExecutorEngine.get_adapter: the adapter to use, whether one was
\* constructed (BaseAdapter.__init__ probes the capabilities), and
\* "ValueError" for a platform without a registered adapter class.
get_adapter(cur, pf) ==
    IF cur = "none" \/ cur # pf
    THEN IF pf \notin adapters
         THEN [outcome |-> "ValueError", adapter |-> cur, constructed |-> FALSE]
         ELSE [outcome |-> "returned", adapter |-> pf, constructed |-> TRUE]
    ELSE [outcome |-> "returned", adapter |-> cur, constructed |-> FALSE]

\* ExecutorEngine.execute_action_plan, lines 37-43: up to the loop. An engine
\* is used for one plan after another; _current_adapter outlives the call.
execute_action_plan_begin(plans, platforms) ==
    /\ pc = "idle"
    /\ engine \in {"none", ExecutorEngine}
    /\ ~request.active
    /\ \E p \in plans, pf \in platforms :
        LET g == get_adapter(current_adapter, pf) IN
        /\ engine' = ExecutorEngine
        /\ plan' = p
        /\ platform' = pf
        /\ g.constructed => probes[g.adapter] < MaxProbes
        /\ current_adapter' = g.adapter
        /\ probes' = IF g.constructed
                     THEN [probes EXCEPT ![g.adapter] = @ + 1] ELSE probes
        /\ trace' = IF g.constructed THEN <<Ev("construct", 0, 0, TRUE)>> ELSE <<>>
        /\ idx' = 0
        /\ results' = <<>>
        /\ \/ /\ g.outcome = "returned"
              /\ pc' = IF p = <<>> THEN "returned" ELSE "running"
              /\ raised' = "none"
           \/ /\ g.outcome # "returned"
              /\ pc' = "raised"
              /\ raised' = g.outcome
        /\ UNCHANGED <<request, daemon_vars>>

EngineStart == execute_action_plan_begin(PlanSet, PlanPlatforms)

\* a loop that takes the actions last to first
loop_position_reversed(actions, n) == Len(actions) - n

\* `for action in actions:` the position of the action the loop takes after
\* n iterations
loop_position(actions, n) == n + 1

\* ExecutorEngine.execute_action_plan, lines 45-63: one loop iteration
EngineStep ==
    /\ pc = "running" /\ engine = ExecutorEngine
    /\ LET id == loop_position(plan, idx)
           action == plan[id]
       IN \E r \in Engine_execute_action(id, action) :
            /\ trace' = trace \o r.events
            /\ results' = Append(results, Engine_result(r.outcome))
            /\ audit' = audit \o Engine_audit_entries(id, r)
            /\ idx' = idx + 1
            /\ pc' = IF Engine_breaks(action, r.outcome) \/ idx + 1 = Len(plan)
                     THEN "returned" ELSE "running"
    /\ UNCHANGED <<engine, plan, platform, current_adapter, raised, request,
                   probes, step_frame>>

\* The caller of ExecutorEngine.execute_action_plan has the returned list
\* (or the exception); the locals of the call are gone, the engine and its
\* _current_adapter stay.
EngineDone ==
    /\ pc \in {"returned", "raised"} /\ engine = ExecutorEngine
    /\ pc' = "idle"
    /\ plan' = <<>>
    /\ platform' = "none"
    /\ idx' = 0
    /\ results' = <<>>
    /\ trace' = <<>>
    /\ raised' = "none"
    /\ UNCHANGED <<engine, current_adapter, request, probes, daemon_vars>>

\* The caller drops the engine after the call: the next plan is run by a
\* new ExecutorEngine().
EngineDiscard ==
    /\ pc \in {"returned", "raised"} /\ engine = ExecutorEngine
    /\ engine' = "none"
    /\ current_adapter' = "none"
    /\ probes' = [a \in adapters |-> 0]
    /\ pc' = "idle"
    /\ plan' = <<>>
    /\ platform' = "none"
    /\ idx' = 0
    /\ results' = <<>>
    /\ trace' = <<>>
    /\ raised' = "none"
    /\ UNCHANGED <<request, daemon_vars>>

\* ActionExecutor.execute_action_plan, lines 45-67: one loop iteration.
\* An exception outside AgentCaught leaves execute_action_plan.
AgentStep ==
    /\ pc = "running" /\ engine = ActionExecutor
    /\ LET id == loop_position(plan, idx)
           action == plan[id]
       IN \E r \in Agent_execute_action(id, action) :
            /\ trace' = trace \o r.events
            /\ audit' = audit \o Agent_audit_entries(id, r)
            /\ idx' = idx + 1
            /\ \/ /\ r.outcome \in {"completed", "failed"} \cup AgentCaught
                  /\ results' = Append(results, Agent_result(id, r.outcome))
                  /\ pc' = IF Agent_breaks(action, r.outcome) \/ idx + 1 = Len(plan)
                           THEN "returned" ELSE "running"
                  /\ raised' = raised
               \/ /\ r.outcome \notin {"completed", "failed"} \cup AgentCaught
                  /\ results' = results
                  /\ pc' = "raised"
                  /\ raised' = r.outcome
    /\ UNCHANGED <<engine, plan, platform, current_adapter, request, probes,
                   step_frame>>

\* AgentDaemon.process_request, lines 83-116: up to the call of
\* execute_action_plan. `unavailable` = generate_action_plan returned None.
process_request(plans) ==
    /\ pc = "idle" /\ engine = "none" /\ ~request.active
    /\ \/ /\ request' = [active |-> TRUE, verifier |-> "none",
                         consent |-> FALSE, ret |-> "False"]
          /\ UNCHANGED <<engine, plan, pc>>
       \/ \E v \in VerifierAnswers, c \in BOOLEAN, p \in plans :
            LET sig == verify_signature(v) IN
            \/ /\ sig = "AttributeError"
               /\ request' = [active |-> TRUE, verifier |-> v, consent |-> c,
                              ret |-> "raised"]
               /\ UNCHANGED <<engine, plan, pc>>
            \/ /\ sig # "AttributeError" /\ ~truthy(sig)
               /\ request' = [active |-> TRUE, verifier |-> v, consent |-> c,
                              ret |-> "False"]
               /\ UNCHANGED <<engine, plan, pc>>
            \/ /\ truthy(sig) /\ c
               /\ request' = [active |-> TRUE, verifier |-> v, consent |-> c,
                              ret |-> "False"]
               /\ UNCHANGED <<engine, plan, pc>>
            \/ /\ truthy(sig) /\ ~c
               /\ request' = [active |-> TRUE, verifier |-> v, consent |-> c,
                              ret |-> "none"]
               /\ engine' = ActionExecutor
               /\ plan' = p
               /\ pc' = IF p = <<>> THEN "returned" ELSE "running"
    /\ UNCHANGED <<platform, current_adapter, idx, results, trace, raised,
                   probes, daemon_vars>>

ProcessRequest == process_request(PlanSet)

\* process_request lines 118-131: the return value once execute_action_plan
\* has returned or raised
failed_actions(rs) == {i \in 1..Len(rs) : rs[i].status # "completed"}

FinishRequest ==
    /\ request.active /\ request.ret = "none"
    /\ pc \in {"returned", "raised"}
    /\ request' = [request EXCEPT !.ret =
          IF pc = "returned"
          THEN IF failed_actions(results) = {} THEN "True" ELSE "False"
          ELSE IF raised \in RequestCaught THEN "False" ELSE "raised"]
    /\ UNCHANGED <<engine, plan, platform, current_adapter, idx, results,
                   trace, pc, raised, probes, daemon_vars>>

Next ==
    \/ EngineStart
    \/ EngineStep
    \/ EngineDone
    \/ ProcessRequest
    \/ AgentStep
    \/ FinishRequest

Spec == Init /\ [][Next]_vars

\* The engine on every platform, one plan of typed steps per engine, with a
\* verbose trace.
TypedPlatforms == adapters \cup {"ios"}

AdaptersInit == Idle /\ verbose = TRUE

TypedStart == execute_action_plan_begin(TypedPlans, TypedPlatforms)

AdaptersNext ==
    \/ TypedStart
    \/ EngineStep
    \/ EngineDiscard

SpecAdapters == AdaptersInit /\ [][AdaptersNext]_vars

\* ------------------------------------------------- the two executors
\* How the commands of a plan end: the k-th command of a step's list as
\* cmd[k], every rollback command as rb. Backups succeed.
OutcomeMaps == [cmd : [1..MaxCmds -> CmdOutcomes], rb : CmdOutcomes]

\* The run went as f says (the trace is verbose).
consistent(r, f) ==
    \A k \in 1..Len(r.events) :
        LET e == r.events[k] IN
        /\ e.op = "command" => e.out = f.cmd[e.arg]
        /\ e.op = "rollback" => e.out = f.rb
        /\ e.op = "backup" => e.ok

under(runs, f) == CHOOSE r \in runs : consistent(r, f)

NoRun == [events |-> <<>>, results |-> <<>>, raised |-> "none"]

\* ExecutorEngine.execute_action_plan, lines 45-63, from action i on: the
\* effects, the success flags of the results, the exception that left it.
\* The adapter is the Linux one.
RECURSIVE Engine_plan_from(_, _, _)
Engine_plan_from(p, f, i) ==
    IF i > Len(p) THEN NoRun
    ELSE LET r == under(Engine_execute_action(i, p[i]), f)
             rest == IF Engine_breaks(p[i], r.outcome) THEN NoRun
                     ELSE Engine_plan_from(p, f, i + 1)
         IN [events |-> r.events \o rest.events,
             results |-> <<Engine_result(r.outcome).success>> \o rest.results,
             raised |-> rest.raised]

\* ActionExecutor.execute_action_plan, lines 45-67, from action i on. An
\* exception outside AgentCaught leaves the call.
RECURSIVE Agent_plan_from(_, _, _)
Agent_plan_from(p, f, i) ==
    IF i > Len(p) THEN NoRun
    ELSE LET r == under(Agent_execute_action(i, p[i]), f)
             status == Agent_result(i, r.outcome).status
         IN IF r.outcome \notin {"completed", "failed"} \cup AgentCaught
            THEN [events |-> r.events, results |-> <<>>, raised |-> r.outcome]
            ELSE LET rest == IF Agent_breaks(p[i], r.outcome) THEN NoRun
                             ELSE Agent_plan_from(p, f, i + 1)
                 IN [events |-> r.events \o rest.events,
                     results |-> <<status = "completed">> \o rest.results,
                     raised |-> rest.raised]

\* What the caller of ActionExecutor.execute_action_plan gets: the list, or
\* the exception and no list.
Agent_plan(p, f) ==
    LET x == Agent_plan_from(p, f, 1) IN
    IF x.raised = "none" THEN x ELSE [x EXCEPT !.results = <<>>]

\* plans of plain command steps: every risk level, command lists of every
\* length, without and with rollback commands
TwinSteps == Generic \cup Lists
TwinPlans == UNION {[1..n -> TwinSteps] : n \in 1..MaxTwinSteps}

\* The same plan is given to an ExecutorEngine and to an ActionExecutor, and
\* every command ends the same way for both.
TwinExecute ==
    /\ twin = <<>>
    /\ \E p \in TwinPlans, f \in OutcomeMaps :
          twin' = <<p, f, Engine_plan_from(p, f, 1), Agent_plan(p, f)>>
    /\ UNCHANGED <<engine, plan, platform, current_adapter, idx, results,
                   trace, pc, raised, request, running, cli, audit, tampered,
                   probes, verbose, schema_vars>>

TwinNext == TwinExecute

SpecTwin == AdaptersInit /\ [][TwinNext]_vars

\* ------------------------------------------------- the engine's adapter
\* A call of ExecutorEngine.get_adapter(platform) by the engine's user. The
\* ValueError of an unregistered platform goes to the caller; the engine is
\* as before.
GetAdapter ==
    /\ pc = "idle" /\ engine \in {"none", ExecutorEngine} /\ ~request.active
    /\ \E pf \in TypedPlatforms :
          LET g == get_adapter(current_adapter, pf) IN
          /\ g.constructed => probes[g.adapter] < MaxProbes
          /\ engine' = ExecutorEngine
          /\ current_adapter' = g.adapter
          /\ probes' = IF g.constructed
                       THEN [probes EXCEPT ![g.adapter] = @ + 1] ELSE probes
    /\ UNCHANGED <<plan, platform, idx, results, trace, pc, raised, request,
                   daemon_vars>>

\* ExecutorEngine.get_platform_capabilities(platform): get_adapter, then a
\* copy of the adapter's list; [] for the ValueError.
GetPlatformCapabilities ==
    /\ pc = "idle" /\ engine \in {"none", ExecutorEngine} /\ ~request.active
    /\ \E pf \in TypedPlatforms :
          LET g == get_adapter(current_adapter, pf) IN
          /\ g.constructed => probes[g.adapter] < MaxProbes
          /\ engine' = ExecutorEngine
          /\ current_adapter' = g.adapter
          /\ probes' = IF g.constructed
                       THEN [probes EXCEPT ![g.adapter] = @ + 1] ELSE probes
    /\ UNCHANGED <<plan, platform, idx, results, trace, pc, raised, request,
                   daemon_vars>>

\* plans of one plain step
ProbePlans == {<<st>> : st \in Generic}

ProbeStart == execute_action_plan_begin(ProbePlans, TypedPlatforms)

ProbeNext ==
    \/ GetAdapter
    \/ GetPlatformCapabilities
    \/ ProbeStart
    \/ EngineStep
    \/ EngineDone

SpecProbe == Init /\ [][ProbeNext]_vars

\* -------------------------------------------------------------- the daemon
\* AgentDaemon.start, lines 45-50: the companion is healthy, running = True
DaemonStart ==
    /\ ~running /\ ~request.active
    /\ running' = TRUE
    /\ UNCHANGED <<engine, plan, platform, current_adapter, idx, results,
                   trace, pc, raised, request, cli, audit, tampered, probes,
                   verbose, schema_vars, twin>>

\* AgentDaemon.stop: running = False. A caller on another thread (or the
\* task of the signal handler) can get to it at any moment of a request.
DaemonStop ==
    /\ running
    /\ running' = FALSE
    /\ UNCHANGED <<engine, plan, platform, current_adapter, idx, results,
                   trace, pc, raised, request, cli, audit, tampered, probes,
                   verbose, schema_vars, twin>>

\* process_request on a daemon that was started
DaemonRequest == running /\ ProcessRequest

DaemonNext ==
    \/ DaemonStart
    \/ DaemonStop
    \/ DaemonRequest
    \/ AgentStep
    \/ FinishRequest

SpecDaemon == Init /\ [][DaemonNext]_vars

\* ------------------------------------------------- the request command
\* `request` (main.py lines 194-235), up to the first await of
\* daemon.start(): the daemon is created, the device scanned and the health
\* of the companion checked. With a healthy companion start() sets running
\* and awaits _main_loop(); otherwise it returns and process() goes on to
\* process_request.
RequestCommand ==
    /\ cli = "none" /\ ~running /\ ~request.active
    /\ pc = "idle" /\ engine = "none"
    /\ \E healthy \in BOOLEAN :
          IF healthy
          THEN running' = TRUE /\ cli' = "main_loop"
          ELSE running' = FALSE /\ cli' = "process"
    /\ UNCHANGED <<engine, plan, platform, current_adapter, idx, results,
                   trace, pc, raised, request, audit, tampered, probes,
                   verbose, schema_vars, twin>>

\* _main_loop, line 62: `while self.running:`; the body awaits
\* asyncio.sleep. When the test fails start() returns.
MainLoop ==
    /\ cli = "main_loop"
    /\ cli' = IF running THEN "sleeping" ELSE "process"
    /\ UNCHANGED <<engine, plan, platform, current_adapter, idx, results,
                   trace, pc, raised, request, running, audit, tampered,
                   probes, verbose, schema_vars, twin>>

\* _main_loop, lines 66-70: the sleep is over, the status is logged
MainLoopWake ==
    /\ cli = "sleeping"
    /\ cli' = "main_loop"
    /\ UNCHANGED <<engine, plan, platform, current_adapter, idx, results,
                   trace, pc, raised, request, running, audit, tampered,
                   probes, verbose, schema_vars, twin>>

\* the plans the companion answers the command with
RequestPlans == {<<st>> : st \in Generic \cup Lists}

\* process(), line 224: `success = await daemon.process_request(prompt)`
CliProcess == cli = "process" /\ process_request(RequestPlans)

\* process() line 225 and lines 228-235: process_request has returned, the
\* daemon is stopped and the command exits; an exception of process_request
\* outside the handler's classes leaves the command before stop().
CliStop ==
    /\ cli = "process" /\ request.active /\ request.ret # "none"
    /\ IF request.ret = "raised"
       THEN cli' = "crashed" /\ running' = running
       ELSE cli' = "exited" /\ running' = FALSE
    /\ UNCHANGED <<engine, plan, platform, current_adapter, idx, results,
                   trace, pc, raised, request, audit, tampered, probes,
                   verbose, schema_vars, twin>>

\* The steps of the command. It is left alone: no signal is sent to it and
\* nothing else holds the daemon (the command creates it).
CliNext ==
    \/ RequestCommand
    \/ MainLoop
    \/ MainLoopWake
    \/ CliProcess
    \/ AgentStep
    \/ FinishRequest
    \/ CliStop

\* The event loop runs the one task of the command whenever it can go on.
SpecRequestCmd == Init /\ [][CliNext]_vars /\ WF_vars(CliNext)

\* ---------------------------------------------------------- the audit log
\* AuditEvent and AuditDetails, as far as the chain needs them
AuditEvents == {"executed", "error"}
AuditDetailsSet == {"exit_code=0", "exit_code=1"}

\* the checksum before the first entry
Genesis == <<>>

\* the encoding with the details left out
canonical_encoding_without_details(entry) == <<entry.event, entry.step_id>>

\* canonicalEncoding(entry): the fields of the entry other than its
\* checksum, in a fixed order
canonical_encoding(entry) == <<entry.event, entry.step_id, entry.details>>

\* H(previousChecksum || canonicalEncoding(entry)), for a hash without
\* collisions: the pair itself
H(previous, encoding) == <<previous, encoding>>

\* the checksum recorded before entry i
previous_checksum(entries, i) ==
    IF i = 1 THEN Genesis ELSE entries[i - 1].checksum

\* emit(actor, event, plan_id?, step_id?, details?): the entry, bound to the
\* chain by its checksum
emit(entries, event, step_id, details) ==
    LET e == [event |-> event, step_id |-> step_id, details |-> details]
        n == Len(entries) + 1
    IN [event |-> event, step_id |-> step_id, details |-> details,
        checksum |-> H(previous_checksum(entries, n), canonical_encoding(e))]

\* verifyChain(entries): recomputes the checksums in order; the first index
\* whose recorded and recomputed checksums differ, 0 when none does
verify_chain(entries) ==
    LET bad == {i \in 1..Len(entries) :
                   entries[i].checksum #
                       H(previous_checksum(entries, i),
                         canonical_encoding(entries[i]))}
    IN IF bad = {} THEN 0 ELSE CHOOSE i \in bad : \A j \in bad : i <= j

\* an entry is appended to the trail
Emit ==
    /\ Len(audit) < MaxEntries
    /\ \E ev \in AuditEvents, d \in AuditDetailsSet :
          audit' = Append(audit, emit(audit, ev, Len(audit) + 1, d))
    /\ UNCHANGED <<executor_vars, tampered, schema_vars>>

\* the details of one recorded entry are changed, its checksum is not
Tamper ==
    /\ tampered = 0
    /\ \E k \in 1..Len(audit), d \in AuditDetailsSet :
          /\ d # audit[k].details
          /\ audit' = [audit EXCEPT ![k].details = d]
          /\ tampered' = k
    /\ UNCHANGED <<executor_vars, schema_vars>>

AuditNext ==
    \/ Emit
    \/ Tamper

SpecAudit == Init /\ [][AuditNext]_vars

\* ------------------------------------------------------- the plan schema
\* A string is kept as its runs: <<[cls |-> c, n |-> k], ...>> is k
\* characters of class c, then the next run. The classes are the hex digits
\* a-f, the hex digits A-F, the digits 0-9, and every other character.
CharClasses == {"lower", "upper", "digit", "other"}
RunLens == {1, 32, 63, 64}
Runs == [cls : CharClasses, n : RunLens]
HashInputs == UNION {[1..k -> Runs] : k \in 0..MaxRuns}

RECURSIVE str_len(_)
str_len(v) == IF v = <<>> THEN 0 ELSE Head(v).n + str_len(Tail(v))

\* str.lower(): A-F become a-f; the class "other" is closed under it and
\* holds no hex digit before or after.
str_lower(v) ==
    [i \in 1..Len(v) |->
        [v[i] EXCEPT !.cls = IF @ = "upper" THEN "lower" ELSE @]]

\* Field(pattern=r"^[a-f0-9]{64}$")
matches_pattern(v) ==
    /\ str_len(v) = HashLen
    /\ \A i \in 1..Len(v) : v[i].cls \in {"lower", "digit"}

Rejected(f, v) ==
    [field |-> f, input |-> v, outcome |-> "ValidationError",
     stored |-> <<>>]

Accepted(f, v, w) ==
    [field |-> f, input |-> v, outcome |-> "accepted", stored |-> w]

\* ActionPlan.validate_hash, the field validator of device_manifest_hash
validate_hash(v) ==
    IF v = <<>> \/ str_len(v) # HashLen
    THEN Rejected("device_manifest_hash", v)
    ELSE Accepted("device_manifest_hash", v, str_lower(v))

\* ActionPlan.device_manifest_hash: the pattern of the field is part of
\* the string's own validation and is tested first; validate_hash is an
\* "after" validator and gets only a value that passed the pattern.
ActionPlan_device_manifest_hash(v) ==
    IF ~matches_pattern(v)
    THEN Rejected("device_manifest_hash", v)
    ELSE validate_hash(v)

\* Artifact.sha256: the pattern and nothing else
Artifact_sha256(v) ==
    IF ~matches_pattern(v)
    THEN Rejected("sha256", v)
    ELSE Accepted("sha256", v, v)

\* One model object is built from one raw value.
ValidateActionPlan ==
    /\ hash_field = NoField
    /\ \E v \in HashInputs : hash_field' = ActionPlan_device_manifest_hash(v)
    /\ UNCHANGED <<executor_vars, audit, tampered, wire, risk_field>>

ValidateArtifact ==
    /\ hash_field = NoField
    /\ \E v \in HashInputs : hash_field' = Artifact_sha256(v)
    /\ UNCHANGED <<executor_vars, audit, tampered, wire, risk_field>>

SchemaNext ==
    \/ ValidateActionPlan
    \/ ValidateArtifact

SpecSchema == Init /\ [][SchemaNext]_vars

\* ActionPlan.steps (action_plan.py line 106): Field(..., min_length=1).
\* The schema's verdict on a step list; the executors take the plan as a
\* dictionary and never build an ActionPlan from it.
steps_valid(steps) == Len(steps) >= 1

\* ---------------------------------------------------- the JSON wire form
JNull == [t |-> "null", s |-> "", n |-> 0]
JStr(x) == [t |-> "string", s |-> x, n |-> 0]
JInt(x) == [t |-> "integer", s |-> "", n |-> x]
JFloat(x) == [t |-> "real", s |-> "", n |-> x]

\* class LLMProvider(str, Enum), class StepType(str, Enum): name -> value
LLMProvider ==
    [OPENAI |-> "openai", ANTHROPIC |-> "anthropic", GOOGLE |-> "google",
     AUTO |-> "auto"]

StepType ==
    [PRECHECK |-> "precheck", UI |-> "ui", FS |-> "fs", INSTALL |-> "install",
     FLASH |-> "flash", FETCH |-> "fetch", CUSTOM |-> "custom"]

Members(cls) == IF cls = "LLMProvider" THEN LLMProvider ELSE StepType

\* an enum member written by its name
enum_name(m) == m.s

\* the value of an enum member, which is what model_dump_json writes
enum_value(m) == Members(m.t)[m.s]

\* model_dump_json followed by json.loads, for a scalar value
to_json(x) ==
    CASE x.t = "None" -> JNull
      [] x.t = "str" -> JStr(x.s)
      [] x.t = "int" -> JInt(x.n)
      [] x.t = "float" -> JFloat(x.n)
      [] x.t = "UUID" -> JStr(x.s)
      [] OTHER -> JStr(enum_value(x))

\* the UUIDs of the plans, in their string form
UUIDStrings ==
    {"550e8400-e29b-41d4-a716-446655440000",
     "6ba7b810-9dad-11d1-80b4-00c04fd430c8"}

\* validation of a JSON value against the annotation of a field
as_uuid(j) ==
    IF j.t = "string" /\ j.s \in UUIDStrings THEN PyUUID(j.s) ELSE Invalid

as_str(j) == IF j.t = "string" THEN PyStr(j.s) ELSE Invalid

as_optional_str(j) == IF j.t = "null" THEN PyNone ELSE as_str(j)

as_enum(cls, j) ==
    IF j.t = "string" /\ \E m \in DOMAIN Members(cls) : Members(cls)[m] = j.s
    THEN PyEnum(cls, CHOOSE m \in DOMAIN Members(cls) : Members(cls)[m] = j.s)
    ELSE Invalid

\* the constraints ge=lo, le=hi of a Field, with le left out
ge_only(x, lo, hi) == lo <= x

\* the constraints ge=lo, le=hi of a Field
ge_le(x, lo, hi) == lo <= x /\ x <= hi

\* int with Field(ge=lo, le=hi)
as_int_between(j, lo, hi) ==
    IF j.t = "integer" /\ ge_le(j.n, lo, hi) THEN PyInt(j.n) ELSE Invalid

\* confidence: float = Field(..., ge=0, le=1); a JSON integer is taken as
\* the float of the same value
as_float_0_1(j) ==
    CASE j.t = "real" /\ 0 <= j.n /\ j.n <= 100 -> PyFloat(j.n)
      [] j.t = "integer" /\ j.n \in {0, 1} -> PyFloat(100 * j.n)
      [] OTHER -> Invalid

\* Step, reduced to id, type and risk
Step_to_json(st) ==
    [id |-> to_json(st.id), type |-> to_json(st.type),
     risk |-> to_json(st.risk)]

Step_validate(j) ==
    [id |-> as_str(j.id), type |-> as_enum("StepType", j.type),
     risk |-> as_int_between(j.risk, 0, 10)]

\* ActionPlanMetadata, reduced to llm_provider, model, confidence and
\* reasoning (token_usage is None)
Metadata_to_json(md) ==
    [llm_provider |-> to_json(md.llm_provider), model |-> to_json(md.model),
     confidence |-> to_json(md.confidence),
     reasoning |-> to_json(md.reasoning)]

Metadata_validate(j) ==
    [llm_provider |-> as_enum("LLMProvider", j.llm_provider),
     model |-> as_str(j.model),
     confidence |-> as_float_0_1(j.confidence),
     reasoning |-> as_optional_str(j.reasoning)]

\* ActionPlan.model_dump_json, read back by json.loads. The plan is reduced
\* to plan_id, device_manifest_hash, intent, steps, metadata and signature.
ActionPlan_to_json(ap) ==
    [plan_id |-> to_json(ap.plan_id),
     device_manifest_hash |-> ap.device_manifest_hash,
     intent |-> to_json(ap.intent),
     steps |-> [i \in 1..Len(ap.steps) |-> Step_to_json(ap.steps[i])],
     metadata |-> Metadata_to_json(ap.metadata),
     signature |-> to_json(ap.signature)]

\* ActionPlan.model_validate: every field is validated against its
\* annotation; one invalid field makes the whole plan invalid.
ActionPlan_model_validate(j) ==
    LET h == ActionPlan_device_manifest_hash(j.device_manifest_hash)
        ap == [plan_id |-> as_uuid(j.plan_id),
               device_manifest_hash |-> h.stored,
               intent |-> as_str(j.intent),
               steps |-> [i \in 1..Len(j.steps) |-> Step_validate(j.steps[i])],
               metadata |-> Metadata_validate(j.metadata),
               signature |-> as_optional_str(j.signature)]
        ok == /\ h.outcome = "accepted"
              /\ steps_valid(j.steps)
              /\ Invalid \notin {ap.plan_id, ap.intent, ap.signature}
              /\ \A i \in 1..Len(ap.steps) :
                    Invalid \notin {ap.steps[i].id, ap.steps[i].type,
                                    ap.steps[i].risk}
              /\ Invalid \notin {ap.metadata.llm_provider, ap.metadata.model,
                                  ap.metadata.confidence,
                                  ap.metadata.reasoning}
    IN IF ok THEN [outcome |-> "accepted", plan |-> ap]
       ELSE [outcome |-> "ValidationError", plan |-> <<>>]

\* the valid plans: the objects ActionPlan(...) can construct
WireSteps ==
    {[id |-> PyStr("step-1"), type |-> PyEnum("StepType", t), risk |-> PyInt(r)] :
        t \in {"INSTALL", "CUSTOM"}, r \in {0, 10}}

WireStepLists == UNION {[1..k -> WireSteps] : k \in 1..MaxWireSteps}

WireMetadata ==
    {[llm_provider |-> PyEnum("LLMProvider", pr), model |-> PyStr("gpt-4"),
      confidence |-> PyFloat(c), reasoning |-> rs] :
        pr \in DOMAIN LLMProvider, c \in {0, 95, 100},
        rs \in {PyNone, PyStr("asked for")}}

WirePlans ==
    {[plan_id |-> PyUUID(u),
      device_manifest_hash |-> <<[cls |-> "lower", n |-> HashLen]>>,
      intent |-> PyStr(i), steps |-> ss, metadata |-> md,
      signature |-> PyNone] :
        u \in UUIDStrings, i \in {"", "Install Docker"},
        ss \in WireStepLists, md \in WireMetadata}

\* the risk values tried: None and the integers around 0..10
RiskInputs == {PyNone} \cup {PyInt(x) : x \in (0 - RiskSpan)..(10 + RiskSpan)}

\* Step.risk: int = Field(..., ge=0, le=10), for a value given to Step(...)
Step_risk(x) ==
    IF x.t = "int" /\ ge_le(x.n, 0, 10)
    THEN [field |-> "Step.risk", input |-> x, outcome |-> "accepted",
          stored |-> x]
    ELSE [field |-> "Step.risk", input |-> x, outcome |-> "ValidationError",
          stored |-> PyNone]

\* AuditDetails.risk_level: Optional[int] = Field(None, ge=0, le=10)
AuditDetails_risk_level(x) ==
    IF x.t = "None" \/ (x.t = "int" /\ ge_le(x.n, 0, 10))
    THEN [field |-> "AuditDetails.risk_level", input |-> x,
          outcome |-> "accepted", stored |-> x]
    ELSE [field |-> "AuditDetails.risk_level", input |-> x,
          outcome |-> "ValidationError", stored |-> PyNone]

ConstructStep ==
    /\ risk_field = NoRisk
    /\ \E x \in RiskInputs : risk_field' = Step_risk(x)
    /\ UNCHANGED <<executor_vars, audit, tampered, hash_field, wire>>

ConstructAuditDetails ==
    /\ risk_field = NoRisk
    /\ \E x \in RiskInputs : risk_field' = AuditDetails_risk_level(x)
    /\ UNCHANGED <<executor_vars, audit, tampered, hash_field, wire>>

\* A plan is written to its wire form and the wire form is validated.
RoundTrip ==
    /\ wire = <<>>
    /\ \E ap \in WirePlans :
          LET j == ActionPlan_to_json(ap) IN
          wire' = <<ap, j, ActionPlan_model_validate(j)>>
    /\ UNCHANGED <<executor_vars, audit, tampered, hash_field, risk_field>>

ModelsNext ==
    \/ RoundTrip
    \/ ConstructStep
    \/ ConstructAuditDetails

SpecModels == Init /\ [][ModelsNext]_vars

\* ================================================================= claims
\* The result of step i is a failure.
FailedResult(r) ==
    IF engine = ExecutorEngine THEN r.success = FALSE ELSE r.status = "failed"

\* The step declares risk_level "high" or "critical".
Risky(action) == action.risk_level \in {"high", "critical"}

\* The step carries rollback commands.
HasRollback(action) ==
    /\ action.rollback_commands.kind = "list"
    /\ action.rollback_commands.cmds # <<>>

\* execute_action_plan has ended, by returning or by raising.
Ended == pc \in {"returned", "raised"}

\* C1: once a critical step has a failed result, the plan is over: that
\* result stays the last one of the list and no effect (backup, command,
\* adapter operation, rollback) belongs to a later step.
C1_CriticalFailureAborts ==
    \A i \in 1..Len(results) :
        (plan[i].risk_level = "critical" /\ FailedResult(results[i])) =>
            /\ Len(results) = i
            /\ \A q \in 1..Len(trace) : trace[q].step <= i

\* C2: signature verification fails closed. The executor runs only when
\* verify_signature returned True; for every other verifier answer (invalid,
\* unreachable, malformed) execute_action_plan is not called, nothing runs
\* and process_request does not report success.
C2_VerificationFailsClosed ==
    (request.active /\ request.verifier # "none") =>
        /\ engine = ActionExecutor => verify_signature(request.verifier) = "True"
        /\ request.verifier # "valid_true" =>
              (engine = "none" /\ trace = <<>> /\ request.ret # "True")

\* C3: a step that ended in failure and carries rollback commands has had
\* every one of them run, before any effect of a later step.
C3_FailureRunsRollback ==
    \A i \in 1..Len(results) :
        (FailedResult(results[i]) /\ HasRollback(plan[i])) =>
            \A k \in 1..Len(plan[i].rollback_commands.cmds) :
                \E q \in 1..Len(trace) :
                    /\ trace[q].op = "rollback"
                    /\ trace[q].step = i
                    /\ trace[q].arg = plan[i].rollback_commands.cmds[k]
                    /\ \A n \in 1..Len(trace) : trace[n].step > i => q < n

\* C4: a rollback command that fails does not end the call with an
\* exception; its step still gets a failed result, and after a step that is
\* not critical the loop goes on to the remaining steps.
C4_RollbackFailureSwallowed ==
    \A q \in 1..Len(trace) :
        (trace[q].op = "rollback" /\ ~trace[q].ok) =>
            LET i == trace[q].step IN
            /\ ~(pc = "raised" /\ idx = i)
            /\ Len(results) >= i
            /\ FailedResult(results[i])
            /\ (plan[i].risk_level # "critical" /\ i < Len(plan)) =>
                  (idx > i \/ pc = "running")

CriticalFailed ==
    \E i \in 1..idx :
        /\ plan[i].risk_level = "critical"
        /\ (i > Len(results) \/ FailedResult(results[i]))

\* C6: as long as no critical step has failed, a failing step does not stop
\* the plan: the call ends only after every declared step was executed, and
\* the list it returns has a result for each of them.
C6_NonCriticalFailureContinues ==
    (Ended /\ idx >= 1 /\ ~CriticalFailed) =>
        /\ idx = Len(plan)
        /\ pc = "returned" => Len(results) = Len(plan)

\* The positions of the failed results of critical steps.
FailedCritical ==
    {i \in 1..Len(results) :
        plan[i].risk_level = "critical" /\ FailedResult(results[i])}

Min(S) == CHOOSE m \in S : \A n \in S : m <= n

\* C7: the returned list has one result per attempted step, in declared
\* order: its length is the position of the first failed critical step if
\* there is one, the number of declared steps otherwise, and result i is
\* the result of step i.
C7_OneResultPerAttemptedStep ==
    pc = "returned" =>
        /\ Len(results) =
              IF FailedCritical # {} THEN Min(FailedCritical) ELSE Len(plan)
        /\ engine = ActionExecutor =>
              \A i \in 1..Len(results) : results[i].action_id = i

\* C8: an error during a step, the backup of a high-risk step included,
\* becomes a failed result of that step: the call raises only before the
\* first step (the adapter lookup), never during step execution.
C8_StepErrorsCaptured ==
    /\ pc = "raised" => idx = 0
    /\ \A q \in 1..Len(trace) :
          (trace[q].op = "backup" /\ ~trace[q].ok) =>
              /\ Len(results) >= trace[q].step
              /\ FailedResult(results[trace[q].step])

\* C9: for a plan whose platform has no registered adapter the engine
\* raises ValueError("Unsupported platform") to the caller before the loop:
\* no step is executed, no result produced, no adapter constructed or
\* called, and the engine holds no adapter for that platform.
C9_UnsupportedPlatform ==
    (engine = ExecutorEngine /\ platform # "none" /\ platform \notin adapters) =>
        /\ pc = "raised"
        /\ raised = "ValueError"
        /\ idx = 0
        /\ results = <<>>
        /\ trace = <<>>
        /\ current_adapter # platform

\* C9 witness: an engine that already holds an adapter is given a plan with
\* steps for an unregistered platform.
C9_Witness ==
    /\ engine = ExecutorEngine
    /\ platform \notin adapters \cup {"none"}
    /\ current_adapter \in adapters
    /\ Len(plan) = MaxSteps

\* Step i declares a dependency that names no step before it.
Unmet(i) ==
    \E k \in 1..Len(plan[i].dependencies) :
        plan[i].dependencies[k] \notin 1..(i - 1)

\* C10: a step with a dependency that is not already terminal gets a failed
\* result and none of its commands, backups or adapter operations is
\* attempted.
C10_DependenciesChecked ==
    \A i \in 1..idx :
        Unmet(i) =>
            /\ Len(results) >= i
            /\ FailedResult(results[i])
            /\ \A q \in 1..Len(trace) : trace[q].step # i

\* C11: a plan without steps is rejected: its execution ends with an error
\* before an adapter is constructed or called, it yields no result, and a
\* request for it is not reported as a success.
C11_EmptyPlanRejected ==
    (engine # "none" /\ pc # "idle" /\ ~steps_valid(plan)) =>
        /\ pc = "raised"
        /\ trace = <<>>
        /\ request.ret # "True"

\* The command events of every step are its commands in list order, and none
\* follows a failed one.
CommandsInListOrder ==
    \A q \in 1..Len(trace) :
        trace[q].op = "command" =>
            LET i == trace[q].step
                before == {b \in 1..(q - 1) :
                              trace[b].op = "command" /\ trace[b].step = i}
            IN /\ trace[q].arg = plan[i].commands[Cardinality(before) + 1]
               /\ \A b \in before : trace[b].ok

\* C12: within a step run as a raw command list the commands run in list
\* order, no command of the step runs after the first one that failed, and
\* the step's result is that failure.
C12_StepStopsAtFirstFailedCommand ==
    /\ CommandsInListOrder
    /\ \A q \in 1..Len(trace) :
          (trace[q].op = "command" /\ ~trace[q].ok) =>
              /\ Len(results) >= trace[q].step
              /\ FailedResult(results[trace[q].step])

\* The operations step i has reached, its own backup and its rollback apart.
StepOps(i) ==
    {trace[q].op : q \in {n \in 1..Len(trace) : trace[n].step = i}}
        \ {"backup", "rollback"}

\* What a step that falls back to its raw command list has reached.
RanCommands(i) ==
    IF plan[i].commands = <<>> THEN StepOps(i) = {} ELSE StepOps(i) = {"command"}

\* install, backup and restore steps reach install_package, create_backup and
\* restore_backup.
AdapterOpByType(i) ==
    LET a == plan[i] IN
    /\ (a.type = "install" /\ a.target) => StepOps(i) = {"install_package"}
    /\ (a.type = "backup" /\ a.target) => StepOps(i) = {"create_backup"}
    /\ (a.type = "restore" /\ a.target) => StepOps(i) = {"restore_backup"}

\* C13 as claimed: the engine dispatches on the step type, and a configure
\* or modify step reaches modify_file whenever its file_path is given, its
\* raw command list only when no file_path is given.
C13_DispatchByType ==
    \A i \in 1..idx :
        LET a == plan[i] IN
        /\ AdapterOpByType(i)
        /\ a.type \in {"configure", "modify"} =>
              IF a.target THEN StepOps(i) = {"modify_file"} ELSE RanCommands(i)

\* C13 amended: the engine dispatches on the step type, and a configure or
\* modify step reaches modify_file when file_path and changes are both
\* given, its raw command list when either is missing.
C13_DispatchByTypeAmended ==
    \A i \in 1..idx :
        LET a == plan[i] IN
        /\ AdapterOpByType(i)
        /\ a.type \in {"configure", "modify"} =>
              IF a.target /\ a.changes
              THEN StepOps(i) = {"modify_file"} ELSE RanCommands(i)

\* C13 witness: a configure step with a file_path and without changes has
\* run its raw command list.
C13_Witness ==
    \E i \in 1..idx :
        /\ plan[i].type = "configure"
        /\ plan[i].target /\ ~plan[i].changes
        /\ StepOps(i) = {"command"}

\* C14: on each adapter, execute_command returns a result however the
\* command ends (exit 0, non-zero exit, timeout, failure to spawn): the
\* result is a success exactly for exit 0, the call of the plan never ends
\* with an exception of a command, and a command that did not succeed, a
\* timeout included, gives its step a failed result.
C14_ExecuteCommandReturnsResult ==
    /\ pc = "raised" => idx = 0
    /\ \A q \in 1..Len(trace) :
          trace[q].op \in {"command", "rollback"} =>
              /\ trace[q].out \in CmdOutcomes
              /\ trace[q].ok <=> trace[q].out = "ok"
              /\ (trace[q].op = "command" /\ trace[q].out # "ok") =>
                    /\ Len(results) >= trace[q].step
                    /\ FailedResult(results[trace[q].step])

\* C14 witness: on the Android adapter a command has ended in a timeout and
\* its step has a failed result.
C14_Witness ==
    /\ current_adapter = "android"
    /\ \E q \in 1..Len(trace) :
          /\ trace[q].op = "command" /\ trace[q].out = "timeout"
          /\ FailedResult(results[trace[q].step])

\* C15: the effects of a plan occur one step at a time in declared order:
\* every backup, command, adapter operation and rollback command of a step
\* comes before every effect of a later step, no effect belongs to a step
\* the loop has not reached, and a step is started only when every step
\* before it has its result or has ended the call.
C15_SequentialInDeclaredOrder ==
    /\ \A q \in 1..Len(trace) : trace[q].step <= idx
    /\ \A q1, q2 \in 1..Len(trace) :
          q1 < q2 => trace[q1].step <= trace[q2].step
    /\ pc = "running" => Len(results) = idx

\* C15 witness: the first of two steps has failed and run a rollback
\* command, and the second has had its backup and a command.
C15_Witness ==
    \E q1, q2, q3 \in 1..Len(trace) :
        /\ trace[q1].op = "rollback" /\ trace[q1].step = 1
        /\ trace[q2].op = "backup" /\ trace[q2].step = 2
        /\ trace[q3].op = "command" /\ trace[q3].step = 2

\* C16: once the daemon was stopped while its plan is being executed
\* (running is False and the loop has not ended), no further step of the
\* plan is started.
C16_StopBetweenSteps ==
    [][(~running /\ request.active /\ pc = "running") => idx' = idx]_vars

\* The audit trail has an entry with this event for step i.
Audited(event, i) ==
    \E e \in 1..Len(audit) : audit[e].event = event /\ audit[e].step_id = i

\* C17: every step that failed has an audit entry with event "error", and
\* every step whose rollback was attempted has one with event
\* "rollback_started"; a step that failed and whose rollback command failed
\* has both.
C17_FailuresAudited ==
    /\ \A i \in 1..Len(results) :
          FailedResult(results[i]) => Audited("error", i)
    /\ \A q \in 1..Len(trace) :
          trace[q].op = "rollback" => Audited("rollback_started", trace[q].step)

C19_PlatformProbedOnce == \A a \in adapters : probes[a] <= 1

\* C19 amended: an adapter probes its capabilities once, when it is
\* constructed, and never after: a platform is probed exactly in the steps
\* in which the engine replaces the adapter it holds by a new one for that
\* platform; calls for the platform of the adapter it holds, and the steps
\* of a plan, probe nothing.
C19_ProbedAtConstructionOnly ==
    [][\A a \in adapters :
          /\ probes'[a] \in {probes[a], probes[a] + 1}
          /\ probes'[a] = probes[a] + 1 <=>
                (current_adapter' = a /\ current_adapter # a)]_vars

\* C19 witness: the engine has gone from linux to windows and back, and is
\* running a plan on its second linux adapter.
C19_Witness ==
    /\ probes["linux"] = 2 /\ probes["windows"] = 1
    /\ current_adapter = "linux"
    /\ pc = "running"

\* 64 hex digits in upper, lower or mixed case
IsHex64(v) ==
    /\ str_len(v) = HashLen
    /\ \A i \in 1..Len(v) : v[i].cls \in {"lower", "upper", "digit"}

\* C20: a validated hash field is accepted and stored in lowercase when its
\* input is 64 hex digits of any case, and rejected when the input holds a
\* non-hex character or has another length.
C20_HashCaseNormalised ==
    hash_field.outcome # "none" =>
        IF IsHex64(hash_field.input)
        THEN /\ hash_field.outcome = "accepted"
             /\ hash_field.stored = str_lower(hash_field.input)
        ELSE hash_field.outcome = "ValidationError"

\* The half of C20 that the fields keep: nothing but 64 lowercase hex
\* digits is ever stored, and a non-hex or wrong-length input is rejected.
HashRejections ==
    /\ hash_field.outcome = "accepted" =>
          matches_pattern(hash_field.stored)
    /\ (hash_field.outcome # "none" /\ ~IsHex64(hash_field.input)) =>
          hash_field.outcome = "ValidationError"

\* C21: a valid plan written to its JSON wire form and validated from it
\* is accepted, with the same plan_id, the same intent, the same number of
\* steps and the same metadata.
C21_RoundTrip ==
    wire # <<>> =>
        /\ wire[3].outcome = "accepted"
        /\ wire[3].plan.plan_id = wire[1].plan_id
        /\ wire[3].plan.intent = wire[1].intent
        /\ Len(wire[3].plan.steps) = Len(wire[1].steps)
        /\ wire[3].plan.metadata = wire[1].metadata

\* C21 witness: a plan of two steps with a reasoning and a confidence of
\* 0.95 has made the round trip.
C21_Witness ==
    /\ wire # <<>>
    /\ Len(wire[1].steps) = 2
    /\ wire[1].metadata.reasoning.t = "str"
    /\ wire[1].metadata.confidence.n = 95
    /\ wire[2].metadata.llm_provider = JStr("anthropic")
    /\ wire[3].outcome = "accepted"

\* C22: a risk given to Step(...) is accepted exactly when it is an integer
\* in 0..10, and is then stored unchanged; -1, 11 and every other integer
\* out of the range is rejected with a validation error, and so is a
\* missing risk. AuditDetails.risk_level has the same bounds.
C22_RiskBounds ==
    risk_field.outcome # "none" =>
        LET x == risk_field.input
            in_range == x.t = "int" /\ x.n \in 0..10
        IN /\ in_range =>
                 risk_field.outcome = "accepted" /\ risk_field.stored = x
           /\ (x.t = "int" /\ ~in_range) =>
                 risk_field.outcome = "ValidationError"
           /\ risk_field.field = "Step.risk" =>
                 (risk_field.outcome = "accepted" <=> in_range)

\* C22 witness: a risk_level of 11 was rejected by AuditDetails.
C22_Witness ==
    /\ risk_field.field = "AuditDetails.risk_level"
    /\ risk_field.input = PyInt(11)
    /\ risk_field.outcome = "ValidationError"

\* C23: the request command with a healthy companion, once the daemon is
\* started, eventually calls process_request, stops the daemon and ends, by
\* itself.
C23_RequestCommandTerminates ==
    (cli = "main_loop") ~> (request.active /\ cli = "exited")

\* The rollback events of step i.
RollbackEvents(i) ==
    {q \in 1..Len(trace) : trace[q].op = "rollback" /\ trace[q].step = i}

\* C24: a rollback command of a step has run only when the step ended in
\* failure (a failed result, or an exception that ended the call at this
\* step), each rollback command at most once; a step with a successful
\* result has no rollback command run.
C24_RollbackOnlyAfterFailure ==
    \A i \in 1..idx :
        /\ RollbackEvents(i) # {} =>
              IF Len(results) >= i THEN FailedResult(results[i])
              ELSE pc = "raised" /\ idx = i
        /\ \A q1, q2 \in RollbackEvents(i) :
              trace[q1].arg = trace[q2].arg => q1 = q2
        /\ Cardinality(RollbackEvents(i)) <=
              Len(plan[i].rollback_commands.cmds)

\* C24 witness: of two steps with rollback commands the first succeeded and
\* none of its rollback commands ran, the second failed and its rollback
\* command ran.
C24_Witness ==
    /\ Len(results) = 2
    /\ HasRollback(plan[1]) /\ HasRollback(plan[2])
    /\ ~FailedResult(results[1]) /\ RollbackEvents(1) = {}
    /\ FailedResult(results[2]) /\ Cardinality(RollbackEvents(2)) = 1

\* The backup events of step i.
BackupEvents(i) ==
    {q \in 1..Len(trace) : trace[q].op = "backup" /\ trace[q].step = i}

\* No backup is taken for a step that is not of risk "high" or "critical";
\* a step without risk_level counts as "medium".
NoBackupBelowHigh ==
    \A i \in 1..idx :
        /\ plan[i].risk_level = "none" => risk_level_of(plan[i]) = "medium"
        /\ ~Risky(plan[i]) => BackupEvents(i) = {}

\* C25: no backup is taken for a step whose risk_level is neither "high"
\* nor "critical"; a step without risk_level is treated as "medium": no
\* backup is taken for it, and when it fails (with a failed result or with
\* an error) the plan is not over: the steps after it are still executed.
C25_NoBackupBelowHigh ==
    /\ NoBackupBelowHigh
    /\ \A i \in 1..idx :
          (plan[i].risk_level = "none" /\ i < Len(plan)
              /\ (i > Len(results) \/ FailedResult(results[i]))) =>
                 (idx > i \/ pc = "running")

\* C26: on an engine that is given plans for different platforms one after
\* another, every step of a plan is executed on the adapter of the plan's
\* platform, and a call that raises for an unsupported platform leaves the
\* adapter the engine holds as it was.
C26_AdapterOfThePlan ==
    [][/\ idx' = idx + 1 =>
            (current_adapter = platform /\ current_adapter' = platform)
       /\ (pc = "idle" /\ pc' = "raised") =>
            (platform' \notin adapters /\ current_adapter' = current_adapter)
       /\ (pc = "idle" /\ pc' \in {"running", "returned"}) =>
            current_adapter' = platform']_vars

\* C26 witness: an engine that has had a linux adapter has executed a step
\* of a plan for windows, on a windows adapter.
C26_Witness ==
    /\ probes["linux"] = 1 /\ probes["windows"] = 1
    /\ platform = "windows" /\ current_adapter = "windows"
    /\ Len(results) = 1

\* The commands a run has executed, rollback commands included, in order.
CommandsRun(x) ==
    LET C == {k \in 1..Len(x.events) :
                 x.events[k].op \in {"command", "rollback"}}
        nth(n) == CHOOSE k \in C : Cardinality({m \in C : m < k}) = n - 1
    IN [n \in 1..Cardinality(C) |->
           <<x.events[nth(n)].op, x.events[nth(n)].step, x.events[nth(n)].arg>>]

\* C27: given the same plan of plain command steps and the same outcome for
\* every command, ExecutorEngine and ActionExecutor run the same commands in
\* the same order, rollback commands included, and report the same
\* success/failure for each step.
C27_ExecutorsAgree ==
    twin # <<>> =>
        /\ CommandsRun(twin[3]) = CommandsRun(twin[4])
        /\ twin[3].results = twin[4].results
        /\ twin[3].raised = twin[4].raised

\* process_request has ended: it returned a value or an exception left it.
RequestOver == request.active /\ request.ret # "none"

\* C28: process_request returns True exactly when a plan was obtained, its
\* signature was verified, no consent was required, the plan was executed
\* and every result of the returned list is "completed"; in every other
\* case, a failed step included, it returns False.
C28_TrueIffAllCompleted ==
    RequestOver =>
        /\ request.ret \in {"True", "False"}
        /\ request.ret = "True" <=>
              /\ request.verifier = "valid_true"
              /\ ~request.consent
              /\ engine = ActionExecutor /\ pc = "returned"
              /\ \A i \in 1..Len(results) : results[i].status = "completed"

\* A request whose response asks for consent executes nothing and is never
\* reported as a success.
ConsentNeverExecuted ==
    (request.active /\ request.consent) =>
        /\ engine = "none" /\ pc = "idle"
        /\ trace = <<>> /\ results = <<>>
        /\ request.ret # "True"

\* C29: for a response with consent_required set, execute_action_plan is
\* not called, no command runs and process_request returns False.
C29_ConsentBlocksExecution ==
    (request.active /\ request.consent) =>
        /\ engine = "none" /\ pc = "idle"
        /\ trace = <<>> /\ results = <<>>
        /\ request.ret = "False"

\* The rollback commands step i has attempted, in the order of the trace.
RollbackAttempts(i) ==
    LET R == RollbackEvents(i)
        nth(n) == CHOOSE q \in R : Cardinality({m \in R : m < q}) = n - 1
    IN [n \in 1..Cardinality(R) |-> trace[nth(n)].arg]

\* C30: a rollback attempts every rollback command of its step, in list
\* order, whether or not an earlier one failed or raised.
C30_RollbackRunsEveryCommand ==
    \A i \in 1..idx :
        RollbackEvents(i) # {} =>
            RollbackAttempts(i) = plan[i].rollback_commands.cmds

\* In ExecutorEngine a rollback attempts every command of the list.
EngineRollbackComplete ==
    engine = ExecutorEngine => C30_RollbackRunsEveryCommand

====
